---- MODULE Spec2Model ----
(***************************************************************************)
(* A model of pretty_print.py, the pretty printer for the OpenCode CLI     *)
(* JSON stream: the StreamProcessor (process_line, handle_message and the  *)
(* handlers, finalize) and main's read loop.                               *)
(*                                                                         *)
(* Python strings that the code inspects (strip, lower, "in", startswith,  *)
(* split) are sequences of one-character strings.  Discriminants that the  *)
(* code only compares for equality (type, status) are TLA+ strings.  A     *)
(* Python dict is a function from its keys; d.get(k, default) is Get.      *)
(* sys.stdout and sys.stderr are the sequences out and err of what was     *)
(* written: one record per print / stderr call, naming the f-string        *)
(* template and carrying its arguments.                                    *)
(***************************************************************************)
EXTENDS Integers, Sequences, FiniteSets, TLC

VARIABLES
    DEBUG,            \* PRETTY_PRINT_DEBUG, read once at import
    MAX_LINES,        \* PRETTY_PRINT_MAX_LINES, read once at import
    current_text,     \* StreamProcessor.current_text
    in_text_block,    \* StreamProcessor.in_text_block
    current_tool,     \* StreamProcessor.current_tool
    stats,            \* StreamProcessor.stats (without start_time)
    out,              \* what was written to sys.stdout
    err,              \* what was written to sys.stderr
    pc,               \* main: "read" (in the for loop), "finally", "done"
    line_count,       \* main's line_count
    exit_status,      \* -1 while running, then the status main exits with
    consumed,         \* the lines main has passed to process_line, in order
    marks,            \* Len(out), Len(err) before the last line, or finalize, ran
    before,           \* the processor's fields before the last line, or finalize, ran
    ended_by,         \* how the read loop ended: "none", "eof", "interrupt", "pipe"
    finalize_runs,    \* how many times finalize() was entered
    probe             \* the last direct call of a formatting function: arguments, result

vars ==
    <<DEBUG, MAX_LINES, current_text, in_text_block, current_tool, stats, out, err,
      pc, line_count, exit_status, consumed, marks, before, ended_by, finalize_runs,
      probe>>

\* ------------------------------------------------------------------ bounds

\* The number of input lines main reads before the input ends.
MaxLines ==
    3

\* The longest result string handed to format_tool_result directly.
MaxResultLen ==
    5

\* The largest max_lines handed to format_tool_result directly.
MaxMaxLines ==
    3

\* ------------------------------------------------------------ Python values

None ==
    [py_none |-> TRUE]

EmptyDict ==
    <<>>

Get(d, k, default) ==
    IF k \in DOMAIN d THEN d[k] ELSE default

\* ----------------------------------------------------------------- strings

WS ==
    {" ", "\n", "\t", "\r"}

UpperChars ==
    <<"A", "B", "C", "D", "E", "F", "G", "H", "I", "J", "K", "L", "M", "N", "O", "P", "Q", "R", "S", "T", "U", "V", "W", "X", "Y", "Z">>
LowerChars ==
    <<"a", "b", "c", "d", "e", "f", "g", "h", "i", "j", "k", "l", "m", "n", "o", "p", "q", "r", "s", "t", "u", "v", "w", "x", "y", "z">>

LowerChar(c) ==
    IF \E i \in 1..Len(UpperChars) : UpperChars[i] = c
    THEN LowerChars[CHOOSE i \in 1..Len(UpperChars) : UpperChars[i] = c]
    ELSE c

\* str.lower()
Lower(s) ==
    [i \in 1..Len(s) |-> LowerChar(s[i])]

\* str.strip(): drop leading and trailing whitespace
Strip(s) ==
    LET idx == {i \in 1..Len(s) : s[i] \notin WS}
    IN  IF idx = {} THEN <<>>
        ELSE LET lo == CHOOSE i \in idx : \A j \in idx : i <= j
                 hi == CHOOSE i \in idx : \A j \in idx : j <= i
             IN  SubSeq(s, lo, hi)

\* str.startswith(p)
StartsWith(s, p) ==
    /\ Len(p) <= Len(s)
    /\ SubSeq(s, 1, Len(p)) = p

\* sub in s
Contains(s, sub) ==
    \E i \in 1..(Len(s) - Len(sub) + 1) : SubSeq(s, i, i + Len(sub) - 1) = sub

\* s[:n]
Take(s, n) ==
    IF Len(s) <= n THEN s ELSE SubSeq(s, 1, n)

\* s.replace("\n", " ")
ReplaceNewlines(s) ==
    [i \in 1..Len(s) |-> IF s[i] = "\n" THEN " " ELSE s[i]]

\* s.split("\n"): the pieces between newlines, Len = newline count + 1
RECURSIVE SplitFrom(_, _)
SplitFrom(s, start) ==
    LET nl == {i \in start..Len(s) : s[i] = "\n"}
    IN  IF nl = {} THEN <<SubSeq(s, start, Len(s))>>
        ELSE LET i == CHOOSE i \in nl : \A j \in nl : i <= j
             IN  <<SubSeq(s, start, i - 1)>> \o SplitFrom(s, i + 1)

Split(s) ==
    SplitFrom(s, 1)

\* "\n".join(parts)
RECURSIVE Join(_)
Join(parts) ==
    IF Len(parts) = 0 THEN <<>>
    ELSE IF Len(parts) = 1 THEN parts[1]
    ELSE parts[1] \o <<"\n">> \o Join(Tail(parts))

Ellipsis ==
    <<".", ".", ".">>

truncate(s, max_len) ==
    LET t == Strip(ReplaceNewlines(s))
    IN  IF Len(t) <= max_len THEN t
        ELSE Take(t, max_len - 3) \o Ellipsis

Digits ==
    <<"0", "1", "2", "3", "4", "5", "6", "7", "8", "9">>

\* str(n) for n >= 0
RECURSIVE IntStr(_)
IntStr(n) ==
    IF n < 10 THEN <<Digits[n + 1]>>
    ELSE IntStr(n \div 10) \o <<Digits[(n % 10) + 1]>>

\* Python truthiness of a value that is None or a string
Truthy(x) ==
    /\ x # None
    /\ x # <<>>

\* ------------------------------------------------------------------- icons

TOOL_ICONS ==
    <<<<<<"r", "e", "a", "d">>, "file">>,
      <<<<"v", "i", "e", "w">>, "file">>,
      <<<<"c", "a", "t">>, "file">>,
      <<<<"w", "r", "i", "t", "e">>, "edit">>,
      <<<<"e", "d", "i", "t">>, "edit">>,
      <<<<"s", "t", "r", "_", "r", "e", "p", "l", "a", "c", "e">>, "edit">>,
      <<<<"c", "r", "e", "a", "t", "e">>, "edit">>,
      <<<<"b", "a", "s", "h">>, "run">>,
      <<<<"s", "h", "e", "l", "l">>, "run">>,
      <<<<"e", "x", "e", "c", "u", "t", "e">>, "run">>,
      <<<<"s", "e", "a", "r", "c", "h">>, "search">>,
      <<<<"g", "r", "e", "p">>, "search">>,
      <<<<"r", "g">>, "search">>,
      <<<<"f", "i", "n", "d">>, "search">>,
      <<<<"g", "l", "o", "b">>, "search">>,
      <<<<"g", "i", "t">>, "package">>,
      <<<<"b", "r">>, "task">>,
      <<<<"b", "e", "a", "d", "s">>, "task">>,
      <<<<"t", "e", "s", "t">>, "test">>,
      <<<<"p", "y", "t", "e", "s", "t">>, "test">>,
      <<<<"n", "p", "m">>, "package">>,
      <<<<"n", "o", "d", "e">>, "package">>,
      <<<<"t", "o", "d", "o", "w", "r", "i", "t", "e">>, "task">>,
      <<<<"t", "o", "d", "o", "r", "e", "a", "d">>, "task">>,
      <<<<"q", "u", "e", "s", "t", "i", "o", "n">>, "question">>>>

\* get_tool_icon without the table lookup.
get_tool_icon_generic(tool_name) ==
    "tool"

\* First key of TOOL_ICONS, in table order, that occurs in the lowered name;
\* ICONS["tool"] when none does.
get_tool_icon(tool_name) ==
    LET name_lower == Lower(tool_name)
        hits == {i \in 1..Len(TOOL_ICONS) : Contains(name_lower, TOOL_ICONS[i][1])}
    IN  IF hits = {} THEN "tool"
        ELSE TOOL_ICONS[CHOOSE i \in hits : \A j \in hits : i <= j][2]

\* ------------------------------------------------------------- formatting

\* json.dumps(input_data) / str(input_data): the serialised mapping, opaque here.
json_dumps(input_data) ==
    <<"{", "j", "s", "o", "n", "}">>

format_tool_input(tool_name, input_data) ==
    IF input_data = EmptyDict THEN <<>>
    ELSE IF "command" \in DOMAIN input_data
    THEN truncate(input_data["command"], 80)
    ELSE LET p1 == Get(input_data, "path", None)
             path == IF Truthy(p1) THEN p1 ELSE Get(input_data, "file_path", None)
         IN  IF Truthy(path)
             THEN IF \/ "content" \in DOMAIN input_data
                     \/ "file_text" \in DOMAIN input_data
                     \/ "newString" \in DOMAIN input_data
                  THEN LET c1 == Get(input_data, "content", None)
                           c2 == Get(input_data, "file_text", None)
                           content == IF Truthy(c1) THEN c1
                                      ELSE IF Truthy(c2) THEN c2
                                      ELSE Get(input_data, "newString", <<>>)
                       IN  path \o <<" ", "(">> \o IntStr(Len(Split(content)))
                                \o <<" ", "l", "i", "n", "e", "s", ")">>
                  ELSE IF "oldString" \in DOMAIN input_data \/ "old_str" \in DOMAIN input_data
                  THEN <<"e", "d", "i", "t", "i", "n", "g", " ">> \o path
                  ELSE path
             ELSE IF "query" \in DOMAIN input_data \/ "pattern" \in DOMAIN input_data
             THEN LET q1 == Get(input_data, "query", None)
                      query == IF Truthy(q1) THEN q1 ELSE Get(input_data, "pattern", <<>>)
                  IN  truncate(query, 60)
             ELSE IF "questions" \in DOMAIN input_data
             THEN <<"a", "s", "k", "i", "n", "g", " ">> \o IntStr(Len(input_data["questions"]))
                      \o <<" ", "q", "u", "e", "s", "t", "i", "o", "n", "(", "s", ")">>
             ELSE IF "prompt" \in DOMAIN input_data
             THEN truncate(input_data["prompt"], 60)
             ELSE truncate(json_dumps(input_data), 60)

\* The omission marker line of format_tool_result (C.DIM and C.RESET are one
\* element each).
OmittedLine(omitted) ==
    <<"<DIM>", " ", " ", " ", " ", ".", ".", ".", " ", "(">> \o IntStr(omitted)
        \o <<" ", "l", "i", "n", "e", "s", " ", "o", "m", "i", "t", "t", "e", "d", ")",
             " ", ".", ".", ".", "<RESET>">>

EmptyPlaceholder ==
    <<"<DIM>", "(", "e", "m", "p", "t", "y", ")", "<RESET>">>

\* lines[-tail_count:]
LastN(lines, n) ==
    SubSeq(lines, Len(lines) - n + 1, Len(lines))

\* format_tool_result keeping max_lines - head_count tail lines, no room left for
\* the marker line.
format_tool_result_long_tail(result, max_lines) ==
    IF result = <<>> \/ Strip(result) = <<>> THEN EmptyPlaceholder
    ELSE LET lines == Split(result)
         IN  IF Len(lines) <= max_lines THEN result
             ELSE LET head_count == max_lines \div 2
                      tail_count == max_lines - head_count
                      head == SubSeq(lines, 1, head_count)
                      tail == IF tail_count > 0 THEN LastN(lines, tail_count) ELSE <<>>
                      omitted == Len(lines) - head_count - tail_count
                  IN  Join(head \o <<OmittedLine(omitted)>> \o tail)

format_tool_result(result, max_lines) ==
    IF result = <<>> \/ Strip(result) = <<>> THEN EmptyPlaceholder
    ELSE LET lines == Split(result)
         IN  IF Len(lines) <= max_lines THEN result
             ELSE LET head_count == max_lines \div 2
                      tail_count == max_lines - head_count - 1
                      head == SubSeq(lines, 1, head_count)
                      tail == IF tail_count > 0 THEN LastN(lines, tail_count) ELSE <<>>
                      omitted == Len(lines) - head_count - tail_count
                  IN  Join(head \o <<OmittedLine(omitted)>> \o tail)

\* ------------------------------------------------------------ output sinks

\* print(...) to sys.stdout
print(w, item) ==
    [w EXCEPT !.out = Append(@, item)]

\* stderr(msg): print(msg, file=sys.stderr, flush=True)
stderr(w, msg) ==
    [w EXCEPT !.err = Append(@, msg)]

\* print(...) only when DEBUG
debug(w, what, s) ==
    IF DEBUG THEN print(w, [k |-> "debug", what |-> what, s |-> s]) ELSE w

\* --------------------------------------------------------- StreamProcessor

\* StreamProcessor.__init__ (the DEBUG line it prints is added in Init)
NewProcessor ==
    [current_text |-> <<>>,
     in_text_block |-> FALSE,
     current_tool |-> None,
     stats |-> [tool_calls |-> 0, tokens_in |-> 0, tokens_out |-> 0,
                tokens_reasoning |-> 0, tokens_cache_read |-> 0],
     out |-> <<>>,
     err |-> <<>>]

\* end_text_block adding the newline it prints to the accumulated text as well.
end_text_block_accumulating(w) ==
    IF w.in_text_block
    THEN [print(w, [k |-> "newline"]) EXCEPT !.in_text_block = FALSE,
                                             !.current_text = @ \o <<"\n">>]
    ELSE w

\* "End any text block": if self.in_text_block: print(); self.in_text_block = False
end_text_block(w) ==
    IF w.in_text_block
    THEN [print(w, [k |-> "newline"]) EXCEPT !.in_text_block = FALSE]
    ELSE w

\* The tool header line of handle_tool_use and handle_tool_start, DEBUG note included.
tool_header(w, tool_name, tool_input) ==
    LET item == [k |-> "tool_header",
                 icon |-> get_tool_icon(tool_name),
                 name |-> tool_name,
                 formatted |-> format_tool_input(tool_name, tool_input)]
    IN  debug(print(w, item), "tool_started", tool_name)

\* tool_output handing every result to format_tool_result, whatever MAX_LINES is.
tool_output_always_formats(w, output, is_error) ==
    IF is_error
    THEN stderr(print(w, [k |-> "tool_error", s |-> truncate(output, 200)]),
                [k |-> "TOOL_ERROR", s |-> output])
    ELSE IF output # <<>> /\ Strip(output) # <<>>
    THEN LET formatted == format_tool_result(output, MAX_LINES)
         IN  print(w, [k |-> "tool_result", lines |-> Split(formatted)])
    ELSE w

\* The tool output block of handle_tool_use and handle_tool_finish.
tool_output(w, output, is_error) ==
    IF is_error
    THEN stderr(print(w, [k |-> "tool_error", s |-> truncate(output, 200)]),
                [k |-> "TOOL_ERROR", s |-> output])
    ELSE IF output # <<>> /\ Strip(output) # <<>>
    THEN LET formatted == IF MAX_LINES = 0 THEN output
                          ELSE format_tool_result(output, MAX_LINES)
         IN  print(w, [k |-> "tool_result", lines |-> Split(formatted)])
    ELSE w

handle_text(w, part) ==
    LET text == Get(part, "text", <<>>)
    IN  IF text # <<>>
        THEN LET w1 == IF ~w.in_text_block
                       THEN debug(w, "text_block_started", IntStr(Len(text)))
                       ELSE w
                 w2 == print(w1, [k |-> "text", s |-> text])
             IN  [w2 EXCEPT !.current_text = @ \o text, !.in_text_block = TRUE]
        ELSE w

handle_tool_use(w, part) ==
    LET state == Get(part, "state", EmptyDict)
        status == Get(state, "status", "")
        tool_name == Get(part, "tool", <<"u", "n", "k", "n", "o", "w", "n">>)
        tool_input == Get(state, "input", EmptyDict)
        w1 == end_text_block(w)
        w2 == IF w1.current_tool = None \/ w1.current_tool.name # tool_name
              THEN LET h == tool_header(w1, tool_name, tool_input)
                   IN  [h EXCEPT !.stats.tool_calls = @ + 1,
                                 !.current_tool = [name |-> tool_name]]
              ELSE w1
    IN  IF status = "completed"
        THEN LET output == Get(state, "output", <<>>)
                 metadata == Get(state, "metadata", EmptyDict)
                 is_error == Get(metadata, "error", FALSE) \/ Get(state, "exit", 0) # 0
             IN  [tool_output(w2, output, is_error) EXCEPT !.current_tool = None]
        ELSE w2

\* handle_tool_start rendering its header without counting the call.
handle_tool_start_uncounted(w, part) ==
    LET w1 == end_text_block(w)
        t == Get(part, "tool", <<>>)
        tool_name == IF t # <<>> THEN t
                     ELSE Get(part, "name", <<"u", "n", "k", "n", "o", "w", "n">>)
        tool_input == Get(part, "input", EmptyDict)
        h == tool_header(w1, tool_name, tool_input)
    IN  [h EXCEPT !.current_tool = [name |-> tool_name]]

\* handle_tool_start without its "End any text block" step.
handle_tool_start_unclosed(w, part) ==
    LET t == Get(part, "tool", <<>>)
        tool_name == IF t # <<>> THEN t
                     ELSE Get(part, "name", <<"u", "n", "k", "n", "o", "w", "n">>)
        tool_input == Get(part, "input", EmptyDict)
        h == tool_header(w, tool_name, tool_input)
    IN  [h EXCEPT !.stats.tool_calls = @ + 1,
                  !.current_tool = [name |-> tool_name]]

handle_tool_start(w, part) ==
    LET w1 == end_text_block(w)
        t == Get(part, "tool", <<>>)
        tool_name == IF t # <<>> THEN t
                     ELSE Get(part, "name", <<"u", "n", "k", "n", "o", "w", "n">>)
        tool_input == Get(part, "input", EmptyDict)
        h == tool_header(w1, tool_name, tool_input)
    IN  [h EXCEPT !.stats.tool_calls = @ + 1,
                  !.current_tool = [name |-> tool_name]]

\* handle_tool_finish taking a result that no active tool awaits for a call of its
\* own: it counts it.
handle_tool_finish_counts_orphan(w, part) ==
    LET output == Get(part, "output", <<>>)
        metadata == Get(part, "metadata", EmptyDict)
        is_error == Get(metadata, "error", FALSE) \/ Get(part, "is_error", FALSE)
        w1 == IF w.current_tool = None THEN [w EXCEPT !.stats.tool_calls = @ + 1] ELSE w
    IN  [tool_output(w1, output, is_error) EXCEPT !.current_tool = None]

handle_tool_finish(w, part) ==
    LET output == Get(part, "output", <<>>)
        metadata == Get(part, "metadata", EmptyDict)
        is_error == Get(metadata, "error", FALSE) \/ Get(part, "is_error", FALSE)
    IN  [tool_output(w, output, is_error) EXCEPT !.current_tool = None]

handle_step_start(w, part) ==
    debug(w, "step_started", <<>>)

\* handle_step_finish adding each report to the totals instead of overwriting.
handle_step_finish_summing(w, part) ==
    LET w1 == end_text_block(w)
        tokens == Get(part, "tokens", EmptyDict)
    IN  IF tokens # EmptyDict
        THEN LET cache == Get(tokens, "cache", EmptyDict)
                 w2 == [w1 EXCEPT !.stats.tokens_in = @ + Get(tokens, "input", 0),
                                  !.stats.tokens_out = @ + Get(tokens, "output", 0),
                                  !.stats.tokens_reasoning = @ + Get(tokens, "reasoning", 0),
                                  !.stats.tokens_cache_read = @ + Get(cache, "read", 0)]
             IN  debug(w2, "step_finished", <<>>)
        ELSE w1

handle_step_finish(w, part) ==
    LET w1 == end_text_block(w)
        tokens == Get(part, "tokens", EmptyDict)
    IN  IF tokens # EmptyDict
        THEN LET cache == Get(tokens, "cache", EmptyDict)
                 w2 == [w1 EXCEPT !.stats.tokens_in = Get(tokens, "input", 0),
                                  !.stats.tokens_out = Get(tokens, "output", 0),
                                  !.stats.tokens_reasoning = Get(tokens, "reasoning", 0),
                                  !.stats.tokens_cache_read = Get(cache, "read", 0)]
             IN  debug(w2, "step_finished", <<>>)
        ELSE w1

\* str(data): the mapping's repr, opaque here.
py_str(data) ==
    <<"{", "d", "a", "t", "a", "}">>

handle_error(w, data) ==
    LET e1 == Get(data, "error", <<>>)
        m1 == IF e1 # <<>> THEN e1 ELSE Get(data, "message", py_str(data))
        part == Get(data, "part", EmptyDict)
        e2 == Get(part, "error", <<>>)
        error_msg == IF part # EmptyDict /\ e2 # <<>> THEN e2 ELSE m1
        w1 == print(w, [k |-> "error_banner"])
        w2 == print(w1, [k |-> "error_message", s |-> error_msg])
    IN  stderr(w2, [k |-> "ERROR", s |-> error_msg])

handle_message(w, data) ==
    LET msg_type == Get(data, "type", "")
        part == Get(data, "part", EmptyDict)
        part_type == Get(part, "type", "")
    IN  CASE msg_type = "text" -> handle_text(w, part)
          [] msg_type = "tool_use" -> handle_tool_use(w, part)
          [] msg_type = "tool_start" -> handle_tool_start(w, part)
          [] msg_type = "tool_finish" -> handle_tool_finish(w, part)
          [] msg_type = "step_start" -> handle_step_start(w, part)
          [] msg_type = "step_finish" -> handle_step_finish(w, part)
          [] msg_type = "error" -> handle_error(w, data)
          [] OTHER ->
               CASE part_type = "text" -> handle_text(w, part)
                 [] part_type = "tool" -> handle_tool_use(w, part)
                 [] part_type = "tool-start" -> handle_tool_start(w, part)
                 [] part_type = "tool-finish" -> handle_tool_finish(w, part)
                 [] OTHER ->
                      IF msg_type # ""
                      THEN print(w, [k |-> "debug", what |-> "unknown_type", s |-> msg_type])
                      ELSE w

RATE_LIMIT_1 ==
    <<"y", "o", "u", "'", "v", "e", " ", "h", "i", "t", " ", "y", "o", "u", "r", " ",
      "l", "i", "m", "i", "t">>

RATE_LIMIT_2 ==
    <<"r", "a", "t", "e", " ", "l", "i", "m", "i", "t">>

ERROR_WORD ==
    <<"e", "r", "r", "o", "r">>

\* An input line is [raw |-> chars], text that json.loads rejects or never sees,
\* or [raw |-> chars, json |-> d], the text of the JSON object d (raw then only
\* says how the text starts).
IsJson(line) ==
    "json" \in DOMAIN line

\* process_line ending an open text block before it renders a line that is not
\* JSON.
process_line_closes_text_block(w, line0) ==
    LET line == Strip(line0.raw)
    IN  IF line = <<>> THEN debug(w, "empty_line", <<>>)
        ELSE IF ~StartsWith(line, <<"{">>)
        THEN LET lower == Lower(line)
                 w1 == end_text_block(w)
             IN  IF Contains(lower, RATE_LIMIT_1) \/ Contains(lower, RATE_LIMIT_2)
                 THEN stderr(print(w1, [k |-> "rate_limit", s |-> line]),
                             [k |-> "line", s |-> line])
                 ELSE IF Contains(lower, ERROR_WORD)
                 THEN stderr(print(w1, [k |-> "error_line", s |-> line]),
                             [k |-> "line", s |-> line])
                 ELSE IF DEBUG THEN debug(w1, "non_json", Take(line, 100))
                 ELSE print(w1, [k |-> "dim", s |-> line])
        ELSE IF ~IsJson(line0)
        THEN IF DEBUG THEN debug(w, "parse_failed", Take(line, 100))
             ELSE print(w, [k |-> "dim", s |-> line])
        ELSE handle_message(w, line0.json)

\* process_line looking for "error" in the line as written, not in lower.
process_line_case_sensitive(w, line0) ==
    LET line == Strip(line0.raw)
    IN  IF line = <<>> THEN debug(w, "empty_line", <<>>)
        ELSE IF ~StartsWith(line, <<"{">>)
        THEN LET lower == Lower(line)
             IN  IF Contains(lower, RATE_LIMIT_1) \/ Contains(lower, RATE_LIMIT_2)
                 THEN stderr(print(w, [k |-> "rate_limit", s |-> line]),
                             [k |-> "line", s |-> line])
                 ELSE IF Contains(line, ERROR_WORD)
                 THEN stderr(print(w, [k |-> "error_line", s |-> line]),
                             [k |-> "line", s |-> line])
                 ELSE IF DEBUG THEN debug(w, "non_json", Take(line, 100))
                 ELSE print(w, [k |-> "dim", s |-> line])
        ELSE IF ~IsJson(line0)
        THEN IF DEBUG THEN debug(w, "parse_failed", Take(line, 100))
             ELSE print(w, [k |-> "dim", s |-> line])
        ELSE handle_message(w, line0.json)

\* process_line running the rate-limit and error tests on every line that is not
\* JSON, the lines starting with { included.
process_line_tests_malformed(w, line0) ==
    LET line == Strip(line0.raw)
    IN  IF line = <<>> THEN debug(w, "empty_line", <<>>)
        ELSE IF ~IsJson(line0)
        THEN LET lower == Lower(line)
             IN  IF Contains(lower, RATE_LIMIT_1) \/ Contains(lower, RATE_LIMIT_2)
                 THEN stderr(print(w, [k |-> "rate_limit", s |-> line]),
                             [k |-> "line", s |-> line])
                 ELSE IF Contains(lower, ERROR_WORD)
                 THEN stderr(print(w, [k |-> "error_line", s |-> line]),
                             [k |-> "line", s |-> line])
                 ELSE IF DEBUG
                 THEN debug(w, IF StartsWith(line, <<"{">>) THEN "parse_failed" ELSE "non_json",
                            Take(line, 100))
                 ELSE print(w, [k |-> "dim", s |-> line])
        ELSE handle_message(w, line0.json)

process_line(w, line0) ==
    LET line == Strip(line0.raw)
    IN  IF line = <<>> THEN debug(w, "empty_line", <<>>)
        ELSE IF ~StartsWith(line, <<"{">>)
        THEN LET lower == Lower(line)
             IN  IF Contains(lower, RATE_LIMIT_1) \/ Contains(lower, RATE_LIMIT_2)
                 THEN stderr(print(w, [k |-> "rate_limit", s |-> line]),
                             [k |-> "line", s |-> line])
                 ELSE IF Contains(lower, ERROR_WORD)
                 THEN stderr(print(w, [k |-> "error_line", s |-> line]),
                             [k |-> "line", s |-> line])
                 ELSE IF DEBUG THEN debug(w, "non_json", Take(line, 100))
                 ELSE print(w, [k |-> "dim", s |-> line])
        ELSE IF ~IsJson(line0)
        THEN IF DEBUG THEN debug(w, "parse_failed", Take(line, 100))
             ELSE print(w, [k |-> "dim", s |-> line])
        ELSE handle_message(w, line0.json)

DONE_PREFIX ==
    <<"D", "O", "N", "E", "|">>

BLOCKED_PREFIX ==
    <<"B", "L", "O", "C", "K", "E", "D", "|">>

\* The loop of finalize stopping at the first marker line it finds.
signal_ops_first_only(lines) ==
    LET hits == {i \in 1..Len(lines) :
                    \/ StartsWith(Strip(lines[i]), DONE_PREFIX)
                    \/ StartsWith(Strip(lines[i]), BLOCKED_PREFIX)}
    IN  IF hits = {} THEN <<>>
        ELSE LET line == Strip(lines[CHOOSE i \in hits : \A j \in hits : i <= j])
             IN  <<[op |-> "print",
                    v |-> [k |-> IF StartsWith(line, DONE_PREFIX) THEN "task_completed"
                                 ELSE "task_blocked"]],
                   [op |-> "stderr", v |-> [k |-> "line", s |-> line]]>>

\* The loop of finalize over self.current_text.split("\n"), as the calls it makes
\* in order: [op |-> "print", v |-> item] and [op |-> "stderr", v |-> msg].
RECURSIVE signal_ops(_)
signal_ops(lines) ==
    IF lines = <<>> THEN <<>>
    ELSE LET line == Strip(Head(lines))
             dbg(what) == IF DEBUG
                          THEN <<[op |-> "print",
                                  v |-> [k |-> "debug", what |-> what, s |-> line]]>>
                          ELSE <<>>
             here == IF StartsWith(line, DONE_PREFIX)
                     THEN <<[op |-> "print", v |-> [k |-> "task_completed"]],
                            [op |-> "stderr", v |-> [k |-> "line", s |-> line]]>>
                          \o dbg("found_done")
                     ELSE IF StartsWith(line, BLOCKED_PREFIX)
                     THEN <<[op |-> "print", v |-> [k |-> "task_blocked"]],
                            [op |-> "stderr", v |-> [k |-> "line", s |-> line]]>>
                          \o dbg("found_blocked")
                     ELSE <<>>
         IN  here \o signal_ops(Tail(lines))

\* finalize reporting tokens_in alone as the input total, the cache reads left out.
finalize_ops_input_only(w) ==
    LET total_in == w.stats.tokens_in
        dbg(what) == IF DEBUG
                     THEN <<[op |-> "print", v |-> [k |-> "debug", what |-> what, s |-> <<>>]]>>
                     ELSE <<>>
    IN  (IF w.in_text_block THEN <<[op |-> "print", v |-> [k |-> "newline"]]>> ELSE <<>>)
        \o dbg("finalizing")
        \o <<[op |-> "print", v |-> [k |-> "rule"]],
             [op |-> "print", v |-> [k |-> "summary", tools |-> w.stats.tool_calls,
                                     total_in |-> total_in,
                                     tokens_out |-> w.stats.tokens_out]],
             [op |-> "stderr", v |-> [k |-> "tool_calls", n |-> w.stats.tool_calls]],
             [op |-> "stderr", v |-> [k |-> "total_in", n |-> total_in]],
             [op |-> "stderr", v |-> [k |-> "tokens_out", n |-> w.stats.tokens_out]]>>
        \o dbg("checking_signals")
        \o signal_ops(Split(w.current_text))

\* finalize writing the completion lines before the summary.
finalize_ops_signals_first(w) ==
    LET total_in == w.stats.tokens_in + w.stats.tokens_cache_read
    IN  <<[op |-> "print", v |-> [k |-> "rule"]],
          [op |-> "print", v |-> [k |-> "summary", tools |-> w.stats.tool_calls,
                                  total_in |-> total_in,
                                  tokens_out |-> w.stats.tokens_out]]>>
        \o signal_ops(Split(w.current_text))
        \o <<[op |-> "stderr", v |-> [k |-> "tool_calls", n |-> w.stats.tool_calls]],
              [op |-> "stderr", v |-> [k |-> "total_in", n |-> total_in]],
              [op |-> "stderr", v |-> [k |-> "tokens_out", n |-> w.stats.tokens_out]]>>

\* StreamProcessor.finalize, as the print and stderr calls it makes in order.
finalize_ops(w) ==
    LET total_in == w.stats.tokens_in + w.stats.tokens_cache_read
        dbg(what) == IF DEBUG
                     THEN <<[op |-> "print", v |-> [k |-> "debug", what |-> what, s |-> <<>>]]>>
                     ELSE <<>>
    IN  (IF w.in_text_block THEN <<[op |-> "print", v |-> [k |-> "newline"]]>> ELSE <<>>)
        \o dbg("finalizing")
        \o <<[op |-> "print", v |-> [k |-> "rule"]],
             [op |-> "print", v |-> [k |-> "summary", tools |-> w.stats.tool_calls,
                                     total_in |-> total_in,
                                     tokens_out |-> w.stats.tokens_out]],
             [op |-> "stderr", v |-> [k |-> "tool_calls", n |-> w.stats.tool_calls]],
             [op |-> "stderr", v |-> [k |-> "total_in", n |-> total_in]],
             [op |-> "stderr", v |-> [k |-> "tokens_out", n |-> w.stats.tokens_out]]>>
        \o dbg("checking_signals")
        \o signal_ops(Split(w.current_text))

\* The positions in ops of the print calls.
PrintCalls(ops) ==
    {i \in 1..Len(ops) : ops[i].op = "print"}

\* Carry out ops[from..upto] on w.
RECURSIVE run_ops(_, _, _, _)
run_ops(w, ops, from, upto) ==
    IF from > upto THEN w
    ELSE run_ops(IF ops[from].op = "print" THEN print(w, ops[from].v)
                 ELSE stderr(w, ops[from].v),
                 ops, from + 1, upto)

\* finalize() run to its end (raise_at = 0), or until its print call at position
\* raise_at raises BrokenPipeError.
finalize(w, raise_at) ==
    LET ops == finalize_ops(w)
    IN  IF raise_at = 0 THEN run_ops(w, ops, 1, Len(ops))
        ELSE run_ops(w, ops, 1, raise_at - 1)

\* -------------------------------------------------------------------- main

World ==
    [current_text |-> current_text, in_text_block |-> in_text_block,
     current_tool |-> current_tool, stats |-> stats, out |-> out, err |-> err]

\* The processor's own fields, without the two output streams.
Fields(w) ==
    [current_text |-> w.current_text, in_text_block |-> w.in_text_block,
     current_tool |-> w.current_tool, stats |-> w.stats]

Becomes(w) ==
    /\ current_text' = w.current_text
    /\ in_text_block' = w.in_text_block
    /\ current_tool' = w.current_tool
    /\ stats' = w.stats
    /\ out' = w.out
    /\ err' = w.err

\* The values of PRETTY_PRINT_MAX_LINES tried.
MaxLinesSettings ==
    {0, 2}

\* processor = StreamProcessor(); line_count = 0
Init ==
    /\ DEBUG \in BOOLEAN
    /\ MAX_LINES \in MaxLinesSettings
    /\ current_text = NewProcessor.current_text
    /\ in_text_block = NewProcessor.in_text_block
    /\ current_tool = NewProcessor.current_tool
    /\ stats = NewProcessor.stats
    /\ out = IF DEBUG THEN <<[k |-> "debug", what |-> "initialized", s |-> <<>>]>> ELSE <<>>
    /\ err = <<>>
    /\ pc = "read"
    /\ line_count = 0
    /\ exit_status = -1
    /\ consumed = <<>>
    /\ marks = <<Len(out), 0>>
    /\ before = Fields(NewProcessor)
    /\ ended_by = "none"
    /\ finalize_runs = 0
    /\ probe = <<>>

\* One iteration of "for line in sys.stdin": the banner on the first line, then
\* processor.process_line(line).
main_loop_body(w, count, line) ==
    process_line(IF count = 1 THEN print(w, [k |-> "banner"]) ELSE w, line)

\* The loop reads a line of the set S and processes it.
ReadLine(S) ==
    /\ pc = "read"
    /\ Len(consumed) < MaxLines
    /\ \E line \in S :
        LET w0 == IF line_count + 1 = 1 THEN print(World, [k |-> "banner"]) ELSE World
        IN  /\ Becomes(main_loop_body(World, line_count + 1, line))
            /\ marks' = <<Len(w0.out), Len(w0.err)>>
            /\ consumed' = Append(consumed, line)
    /\ before' = Fields(World)
    /\ line_count' = line_count + 1
    /\ UNCHANGED probe
    /\ UNCHANGED <<DEBUG, MAX_LINES, pc, exit_status, ended_by, finalize_runs>>

\* sys.stdin is exhausted: the for loop ends and the finally clause is next.
EndOfInput ==
    /\ pc = "read"
    /\ pc' = "finally"
    /\ ended_by' = "eof"
    /\ UNCHANGED probe
    /\ UNCHANGED <<DEBUG, MAX_LINES, current_text, in_text_block, current_tool, stats,
                   out, err, line_count, exit_status, consumed, marks, before,
                   finalize_runs>>

\* The KeyboardInterrupt handler leaving the process at once, the finally clause
\* skipped.
Interrupt_skips_finally ==
    /\ pc = "read"
    /\ out' = Append(out, [k |-> "interrupted"])
    /\ exit_status' = 130
    /\ pc' = "done"
    /\ ended_by' = "interrupt"
    /\ UNCHANGED probe
    /\ UNCHANGED <<DEBUG, MAX_LINES, current_text, in_text_block, current_tool, stats,
                   err, line_count, consumed, marks, before, finalize_runs>>

\* except KeyboardInterrupt: print the notice, sys.exit(130); the finally clause
\* runs before the exit.
Interrupt ==
    /\ pc = "read"
    /\ out' = Append(out, [k |-> "interrupted"])
    /\ exit_status' = 130
    /\ pc' = "finally"
    /\ ended_by' = "interrupt"
    /\ UNCHANGED probe
    /\ UNCHANGED <<DEBUG, MAX_LINES, current_text, in_text_block, current_tool, stats,
                   err, line_count, consumed, marks, before, finalize_runs>>

\* except BrokenPipeError: sys.exit(0).  The downstream pipe is closed and the
\* first write to sys.stdout for the next line raises, before the handler changed
\* any field; the finally clause runs before the exit.
BrokenPipe ==
    /\ pc = "read"
    /\ Len(consumed) < MaxLines
    /\ line_count' = line_count + 1
    /\ exit_status' = 0
    /\ pc' = "finally"
    /\ ended_by' = "pipe"
    /\ UNCHANGED probe
    /\ UNCHANGED <<DEBUG, MAX_LINES, current_text, in_text_block, current_tool, stats,
                   out, err, consumed, marks, before, finalize_runs>>

\* finally: processor.finalize().  With the pipe closed, any of its print calls
\* may raise BrokenPipeError (the traceback exit, status 1); when none does, the
\* flush at interpreter exit fails (status 120).
Finalize ==
    /\ pc = "finally"
    /\ \E raise_at \in {0} \cup
            (IF ended_by = "pipe" THEN PrintCalls(finalize_ops(World)) ELSE {}) :
        /\ Becomes(finalize(World, raise_at))
        /\ exit_status' = IF raise_at # 0 THEN 1
                          ELSE IF ended_by = "pipe" THEN 120
                          ELSE IF exit_status = -1 THEN 0
                          ELSE exit_status
    /\ marks' = <<Len(out), Len(err)>>
    /\ before' = Fields(World)
    /\ finalize_runs' = finalize_runs + 1
    /\ pc' = "done"
    /\ UNCHANGED probe
    /\ UNCHANGED <<DEBUG, MAX_LINES, line_count, consumed, ended_by>>

\* ------------------------------------------------------------- the input

S_bash ==
    <<"b", "a", "s", "h">>

S_read ==
    <<"r", "e", "a", "d">>

S_grep ==
    <<"g", "r", "e", "p">>

S_ls ==
    <<"l", "s", " ", "-", "l", "a", " ", "/", "t", "m", "p">>

S_three_lines ==
    <<"a", "\n", "b", "\n", "c">>

S_boom ==
    <<"b", "o", "o", "m">>

S_hi ==
    <<"h", "i">>

S_scenario ==
    <<"h", "e", "l", "l", "o", "\n", "D", "O", "N", "E", "|", "o", "k", "\n", "w", "o", "r", "l", "d", "\n", "B", "L", "O", "C", "K", "E", "D", "|", "w", "a", "i", "t", "\n">>

S_hello ==
    <<"h", "e", "l", "l", "o", "\n">>

S_done_ok ==
    <<"D", "O", "N", "E", "|", "o", "k", "\n">>

S_blocked_padded ==
    <<" ", " ", "B", "L", "O", "C", "K", "E", "D", "|", "w", "a", "i", "t", " ", "\n">>

S_not_prefix ==
    <<"x", " ", "D", "O", "N", "E", "|", "n", "o", "\n">>

S_done_open ==
    <<"D", "O", "N", "E", "|", "a">>

S_disk_full ==
    <<"d", "i", "s", "k", " ", "f", "u", "l", "l">>

L_empty ==
    <<"\n">>

L_blank ==
    <<" ", " ", "\n">>

L_ok ==
    <<"o", "k", "\n">>

L_Error ==
    <<"E", "r", "r", "o", "r", ":", " ", "d", "i", "s", "k", "\n">>

L_error ==
    <<"a", "n", " ", "e", "r", "r", "o", "r", "\n">>

L_rate_error ==
    <<"R", "a", "t", "e", " ", "L", "i", "m", "i", "t", " ", "e", "r", "r", "o", "r", "\n">>

L_hit_limit ==
    <<"Y", "o", "u", "'", "v", "e", " ", "h", "i", "t", " ", "y", "o", "u", "r", " ", "l", "i", "m", "i", "t", "\n">>

L_truncated_json ==
    <<"{", "\"", "t", "y", "p", "e", "\"", ":", "\n">>

L_brace_error ==
    <<"{", "e", "r", "r", "o", "r", " ", "r", "a", "t", "e", " ", "l", "i", "m", "i", "t", "\n">>

L_json ==
    <<"{", "}", "\n">>

\* The input line carrying the JSON object d.
Json(d) ==
    [raw |-> L_json, json |-> d]

\* The tool each call identity invokes: c1 and c2 are two calls of bash.
CallTool(id) ==
    CASE id = "c1" -> S_bash
      [] id = "c2" -> S_bash
      [] id = "c3" -> S_read
      [] OTHER -> S_grep

ToolInput ==
    [command |-> S_ls]

ToolUse(id, state) ==
    Json([type |-> "tool_use",
          part |-> [tool |-> CallTool(id), callID |-> id, state |-> state]])

Pending ==
    [status |-> "pending", input |-> ToolInput]

CompletedOk ==
    [status |-> "completed", input |-> ToolInput, output |-> S_three_lines]

CompletedErrorFlag ==
    [status |-> "completed", input |-> ToolInput, output |-> S_boom,
     metadata |-> [error |-> TRUE]]

CompletedExit ==
    [status |-> "completed", input |-> ToolInput, output |-> S_boom, exit |-> 1]

Errored ==
    [status |-> "errored", input |-> ToolInput, output |-> S_boom]

ToolStart(id) ==
    Json([type |-> "tool_start",
          part |-> [tool |-> CallTool(id), callID |-> id, input |-> ToolInput]])

ToolFinish(id, output, is_error) ==
    Json([type |-> "tool_finish",
          part |-> [callID |-> id, output |-> output, is_error |-> is_error]])

Text(s) ==
    Json([type |-> "text", part |-> [text |-> s]])

StepFinish(tokens) ==
    Json([type |-> "step_finish", part |-> [tokens |-> tokens]])

ErrorEvent ==
    Json([type |-> "error", error |-> S_disk_full])

\* Tool events of four calls, and a text fragment.
ToolLines ==
    {ToolUse("c1", Pending), ToolUse("c1", CompletedOk),
     ToolUse("c2", Pending), ToolUse("c2", CompletedErrorFlag),
     ToolUse("c3", CompletedExit), ToolUse("c3", Errored),
     ToolStart("c4"), ToolUse("c4", CompletedOk),
     ToolFinish("c4", S_three_lines, FALSE), ToolFinish("c4", S_boom, TRUE),
     Text(S_hi)}

\* Usage reports and other events between them.
TokenLines ==
    {StepFinish([input |-> 100, output |-> 20]),
     StepFinish([input |-> 150, output |-> 40]),
     StepFinish([input |-> 7, output |-> 3, reasoning |-> 5, cache |-> [read |-> 11]]),
     StepFinish([reasoning |-> 2]),
     StepFinish(EmptyDict),
     Json([type |-> "step_finish", part |-> EmptyDict]),
     Json([type |-> "step_start", part |-> EmptyDict]),
     Text(S_hi),
     ToolUse("c1", CompletedOk),
     ErrorEvent,
     [raw |-> L_error]}

\* Text fragments with and without completion markers, and the events that
\* write to the side channel while the stream is read.
TextLines ==
    {Text(S_scenario), Text(S_hello), Text(S_done_ok), Text(S_blocked_padded),
     Text(S_not_prefix), Text(S_done_open), Text(<<>>),
     ErrorEvent, ToolUse("c2", CompletedErrorFlag), [raw |-> L_error]}

\* Lines that are not JSON, and two events to follow them.
PlainLines ==
    {[raw |-> L_empty], [raw |-> L_blank], [raw |-> L_ok], [raw |-> L_Error],
     [raw |-> L_error], [raw |-> L_rate_error], [raw |-> L_hit_limit],
     [raw |-> L_truncated_json], [raw |-> L_brace_error],
     Text(S_hi), ToolUse("c1", Pending)}

\* ---------------------------------------------------------- specifications

NextTools ==
    \/ ReadLine(ToolLines)
    \/ EndOfInput
    \/ Interrupt
    \/ BrokenPipe
    \/ Finalize

NextTokens ==
    \/ ReadLine(TokenLines)
    \/ EndOfInput
    \/ Interrupt
    \/ BrokenPipe
    \/ Finalize

NextText ==
    \/ ReadLine(TextLines)
    \/ EndOfInput
    \/ Interrupt
    \/ BrokenPipe
    \/ Finalize

NextPlain ==
    \/ ReadLine(PlainLines)
    \/ EndOfInput
    \/ Interrupt
    \/ BrokenPipe
    \/ Finalize

Next ==
    \/ ReadLine(ToolLines \cup TokenLines \cup TextLines \cup PlainLines)
    \/ EndOfInput
    \/ Interrupt
    \/ BrokenPipe
    \/ Finalize

SpecTools ==
    Init /\ [][NextTools]_vars

SpecTokens ==
    Init /\ [][NextTokens]_vars

SpecText ==
    Init /\ [][NextText]_vars

SpecPlain ==
    Init /\ [][NextPlain]_vars

Spec ==
    Init /\ [][Next]_vars


\* ------------------------------------------------------- reading the input

NLines ==
    Len(consumed)

LastLine ==
    consumed[NLines]

\* The type discriminant of an input line ("" for a line that is not JSON).
EventType(line) ==
    IF IsJson(line) THEN Get(line.json, "type", "") ELSE ""

PartOf(line) ==
    IF IsJson(line) THEN Get(line.json, "part", EmptyDict) ELSE EmptyDict

StateOf(line) ==
    Get(PartOf(line), "state", EmptyDict)

CallId(line) ==
    Get(PartOf(line), "callID", "")

\* A line has just been processed and the loop is about to read the next one.
JustProcessed ==
    /\ pc = "read"
    /\ NLines > 0

\* What the last line, or finalize, wrote.
NewOut ==
    SubSeq(out, marks[1] + 1, Len(out))

NewErr ==
    SubSeq(err, marks[2] + 1, Len(err))

\* The processor after the first n lines of the input.
RECURSIVE After(_)
After(n) ==
    IF n = 0 THEN NewProcessor ELSE process_line(After(n - 1), consumed[n])

\* A tool_use event that reports its call as finished.
IsCompletedUse(line) ==
    /\ EventType(line) = "tool_use"
    /\ Get(StateOf(line), "status", "") = "completed"

\* consumed[i..n] are the events of one call, in one of the shapes a call comes
\* in: tool_use events of which only the last may be completed, or a tool_start
\* followed by tool_use updates or by one closing tool_finish; and the call has
\* no event before them.
OneInvocation(i, n) ==
    /\ 1 <= i /\ i <= n
    /\ EventType(consumed[i]) \in {"tool_use", "tool_start"}
    /\ \A j \in i..n : CallId(consumed[j]) = CallId(consumed[i])
    /\ \A j \in 1..(i - 1) :
          EventType(consumed[j]) \in {"tool_use", "tool_start", "tool_finish"}
              => CallId(consumed[j]) # CallId(consumed[i])
    /\ \A j \in (i + 1)..n :
          \/ EventType(consumed[j]) = "tool_use"
          \/ EventType(consumed[j]) = "tool_finish" /\ EventType(consumed[i]) = "tool_start"
    /\ \A j \in i..(n - 1) :
          /\ ~IsCompletedUse(consumed[j])
          /\ EventType(consumed[j]) # "tool_finish"

\* C1: the events of one tool invocation, whatever their shape and whatever
\* state they find the processor in, raise the tool-call counter by exactly 1.
C1_OneInvocationCountsOnce ==
    \A i \in 1..NLines :
        OneInvocation(i, NLines)
            => stats.tool_calls = After(i - 1).stats.tool_calls + 1

\* The call identities that a tool_use or tool_start event has announced.
InvocationsSeen ==
    {CallId(consumed[i]) :
        i \in {j \in 1..NLines : EventType(consumed[j]) \in {"tool_use", "tool_start"}}}

\* C2: the tool-call counter equals the number of distinct invocations (call
\* identities) seen so far.
C2_CounterIsDistinctInvocations ==
    stats.tool_calls = Cardinality(InvocationsSeen)

\* The tokens mapping of a line that is a usage report: a step_finish whose
\* tokens mapping is not empty.
TokensOf(line) ==
    Get(PartOf(line), "tokens", EmptyDict)

IsUsageReport(line) ==
    /\ EventType(line) = "step_finish"
    /\ TokensOf(line) # EmptyDict

Reports ==
    {i \in 1..NLines : IsUsageReport(consumed[i])}

\* The four token fields a report carries (a field it leaves out is 0).
Carried(tokens) ==
    [tokens_in |-> Get(tokens, "input", 0),
     tokens_out |-> Get(tokens, "output", 0),
     tokens_reasoning |-> Get(tokens, "reasoning", 0),
     tokens_cache_read |-> Get(Get(tokens, "cache", EmptyDict), "read", 0)]

TokenFields(s) ==
    [tokens_in |-> s.tokens_in, tokens_out |-> s.tokens_out,
     tokens_reasoning |-> s.tokens_reasoning, tokens_cache_read |-> s.tokens_cache_read]

\* C3: the token fields are those of the most recent usage report, all 0 when
\* there was none, and a line that is not a usage report leaves them alone.
C3_TokensLastWriteWins ==
    /\ TokenFields(stats) =
          IF Reports = {} THEN Carried(EmptyDict)
          ELSE Carried(TokensOf(consumed[CHOOSE i \in Reports : \A j \in Reports : j <= i]))
    /\ JustProcessed /\ ~IsUsageReport(LastLine)
          => TokenFields(stats) = TokenFields(before.stats)

\* Two reports, {input:100,output:20} then {input:150,output:40}, were read and
\* the fields are 150 and 40.
C3_Witness ==
    /\ NLines >= 2
    /\ TokensOf(consumed[NLines - 1]) = [input |-> 100, output |-> 20]
    /\ TokensOf(LastLine) = [input |-> 150, output |-> 40]
    /\ stats.tokens_in = 150
    /\ stats.tokens_out = 40


S_DONE_ok ==
    <<"D", "O", "N", "E", "|", "o", "k">>

S_BLOCKED_wait ==
    <<"B", "L", "O", "C", "K", "E", "D", "|", "w", "a", "i", "t">>

\* finalize() ran to its end: no print call of it raised.
FinalizeReturned ==
    /\ pc = "done"
    /\ exit_status # 1

IsCompletionLine(s) ==
    StartsWith(s, DONE_PREFIX) \/ StartsWith(s, BLOCKED_PREFIX)

IsVerbatimLine(m) ==
    m.k = "line"

\* The lines finalize forwarded verbatim to the side channel, in order.
ForwardedAtFinalize ==
    LET f == SelectSeq(NewErr, IsVerbatimLine)
    IN  [i \in 1..Len(f) |-> f[i].s]

\* The lines of the accumulated text, trimmed.
TrimmedTextLines ==
    LET lines == Split(current_text)
    IN  [i \in 1..Len(lines) |-> Strip(lines[i])]

\* C4: finalize forwards to the side channel exactly the lines of the accumulated
\* text that, trimmed, start with DONE| or BLOCKED|, once each and in the order
\* of the text; the text "hello\nDONE|ok\nworld\nBLOCKED|wait\n" gives DONE|ok
\* then BLOCKED|wait.
C4_EveryMarkerLineForwarded ==
    FinalizeReturned =>
        /\ ForwardedAtFinalize = SelectSeq(TrimmedTextLines, IsCompletionLine)
        /\ current_text = S_scenario
              => ForwardedAtFinalize = <<S_DONE_ok, S_BLOCKED_wait>>

\* The text of the scenario, with a marker in the middle of further text, was
\* scanned and both markers were forwarded.
C4_Witness ==
    /\ FinalizeReturned
    /\ current_text = S_scenario
    /\ ForwardedAtFinalize = <<S_DONE_ok, S_BLOCKED_wait>>

SummaryKinds ==
    <<"tool_calls", "total_in", "tokens_out">>

IsSummaryLine(m) ==
    m.k \in {"tool_calls", "total_in", "tokens_out"}

\* C5 as stated: when finalize has returned, the summary was written once and
\* its three lines are the last three lines of the side channel.
C5_SummaryIsLast ==
    FinalizeReturned =>
        /\ Len(err) >= 3
        /\ \A i \in 1..3 : err[Len(err) - 3 + i].k = SummaryKinds[i]
        /\ Len(SelectSeq(err, IsSummaryLine)) = 3

\* C5, amended: when finalize has returned, it wrote the three summary lines
\* once, together and in order, after every line written while the stream was
\* read, and all that follows them are DONE| / BLOCKED| completion lines.
C5_SummaryThenCompletionLines ==
    FinalizeReturned =>
        /\ Len(NewErr) >= 3
        /\ \A i \in 1..3 : NewErr[i].k = SummaryKinds[i]
        /\ Len(SelectSeq(err, IsSummaryLine)) = 3
        /\ \A i \in 4..Len(NewErr) :
              /\ NewErr[i].k = "line"
              /\ IsCompletionLine(NewErr[i].s)

\* An error line was written while reading, then the summary, then a completion
\* line.
C5_Witness ==
    /\ FinalizeReturned
    /\ marks[2] > 0
    /\ Len(NewErr) > 3
    /\ NewErr[4].k = "line"

\* C6: finalize() is entered only from main's finally clause, it has run exactly
\* once when main is done, whichever way the read loop ended, and once it has run
\* no further line is read or processed.
C6_FinalizeRunsOnce ==
    [][/\ finalize_runs' # finalize_runs
          => pc = "finally" /\ pc' = "done" /\ finalize_runs' = finalize_runs + 1
       /\ pc' = "done" => finalize_runs' = 1
       /\ pc' # "done" => finalize_runs' = 0
       /\ finalize_runs >= 1 => consumed' = consumed /\ line_count' = line_count]_vars

\* The read was interrupted after some lines, and finalize has run once.
C6_Witness ==
    /\ pc = "done"
    /\ ended_by = "interrupt"
    /\ NLines >= 1
    /\ finalize_runs = 1

\* The last line is not JSON; TrimmedLine is what process_line works on.
TrimmedLine ==
    Strip(LastLine.raw)

IsPlainLine ==
    /\ JustProcessed
    /\ ~IsJson(LastLine)
    /\ TrimmedLine # <<>>
    /\ ~StartsWith(TrimmedLine, <<"{">>)

HasRateLimitPhrase(s) ==
    Contains(Lower(s), RATE_LIMIT_1) \/ Contains(Lower(s), RATE_LIMIT_2)

\* The line was written to the side channel as it is, and nothing else was.
ForwardedVerbatim ==
    NewErr = <<[k |-> "line", s |-> TrimmedLine]>>

\* The line was rendered dimmed (in debug mode as a dimmed debug note).
RenderedDimmed(what) ==
    /\ Len(NewOut) = 1
    /\ IF DEBUG THEN NewOut[1].k = "debug" /\ NewOut[1].what = what
       ELSE NewOut[1] = [k |-> "dim", s |-> TrimmedLine]

\* What C7 says of a plain line whose "error" test is matches_error.
PlainLineRule(matches_error) ==
    /\ ForwardedVerbatim <=> (HasRateLimitPhrase(TrimmedLine) \/ matches_error)
    /\ ~ForwardedVerbatim => NewErr = <<>>
    /\ HasRateLimitPhrase(TrimmedLine) => NewOut = <<[k |-> "rate_limit", s |-> TrimmedLine]>>
    /\ ~HasRateLimitPhrase(TrimmedLine) /\ matches_error
          => NewOut = <<[k |-> "error_line", s |-> TrimmedLine]>>
    /\ ~HasRateLimitPhrase(TrimmedLine) /\ ~matches_error => RenderedDimmed("non_json")

IsEmptyLine ==
    /\ JustProcessed
    /\ ~IsJson(LastLine)
    /\ TrimmedLine = <<>>

\* C7 as stated: a plain line is forwarded exactly when it has a rate-limit
\* phrase (in any case) or the substring "error"; the rate-limit rendering wins;
\* a line with neither is dimmed and not forwarded; an empty line gives no output.
C7_PlainLineAsStated ==
    /\ IsPlainLine => PlainLineRule(Contains(TrimmedLine, ERROR_WORD))
    /\ IsEmptyLine => NewOut = <<>> /\ NewErr = <<>>

\* C7, amended: "error" too is looked for in the lowered line, and an empty line
\* writes nothing except, in debug mode, one debug note on the primary output.
C7_PlainLineClassified ==
    /\ IsPlainLine => PlainLineRule(Contains(Lower(TrimmedLine), ERROR_WORD))
    /\ IsEmptyLine
          => /\ NewErr = <<>>
             /\ NewOut = IF DEBUG THEN <<[k |-> "debug", what |-> "empty_line", s |-> <<>>]>>
                         ELSE <<>>

\* A line with a rate-limit phrase and "error" was rendered as a rate-limit
\* warning and forwarded.
C7_Witness ==
    /\ IsPlainLine
    /\ LastLine.raw = L_rate_error
    /\ NewOut[1].k = "rate_limit"
    /\ ForwardedVerbatim

IsMalformedLine ==
    /\ JustProcessed
    /\ ~IsJson(LastLine)
    /\ StartsWith(TrimmedLine, <<"{">>)

\* C8: a line that starts with { and is not JSON is rendered dimmed, writes
\* nothing to the side channel whatever it contains, changes no field of the
\* processor, and leaves the loop reading.
C8_MalformedJsonIsPlainText ==
    IsMalformedLine =>
        /\ RenderedDimmed("parse_failed")
        /\ NewErr = <<>>
        /\ Fields(World) = before
        /\ pc = "read"
        /\ exit_status = -1

\* The malformed line {error rate limit was read first, nothing reached the side
\* channel, and the text event after it was processed as on a fresh processor.
C8_Witness ==
    /\ JustProcessed
    /\ NLines = 2
    /\ consumed[1] = [raw |-> L_brace_error]
    /\ consumed[2] = Text(S_hi)
    /\ err = <<>>
    /\ Fields(World) = Fields(handle_text(NewProcessor, [text |-> S_hi]))


\* The last line reports a tool call that ended in error: a tool_finish with an
\* error flag, a completed tool_use with an error flag or a non-zero exit, or a
\* tool_use whose status is errored.
IsToolErrorEvent(line) ==
    \/ /\ EventType(line) = "tool_finish"
       /\ \/ Get(PartOf(line), "is_error", FALSE)
          \/ Get(Get(PartOf(line), "metadata", EmptyDict), "error", FALSE)
    \/ /\ IsCompletedUse(line)
       /\ \/ Get(Get(StateOf(line), "metadata", EmptyDict), "error", FALSE)
          \/ Get(StateOf(line), "exit", 0) # 0
    \/ /\ EventType(line) = "tool_use"
       /\ Get(StateOf(line), "status", "") = "errored"

\* The output the event carries.
ErrorPayload(line) ==
    IF EventType(line) = "tool_finish" THEN Get(PartOf(line), "output", <<>>)
    ELSE Get(StateOf(line), "output", <<>>)

IsToolErrorRendering(item) ==
    item.k = "tool_error"

\* C9: a tool call that ends in error gets an error rendering on the primary
\* output and exactly one TOOL_ERROR line, with its payload, on the side channel;
\* the active tool is cleared and the loop goes on reading.
C9_ToolErrorSurfaced ==
    JustProcessed /\ IsToolErrorEvent(LastLine) =>
        /\ Len(SelectSeq(NewOut, IsToolErrorRendering)) = 1
        /\ NewErr = <<[k |-> "TOOL_ERROR", s |-> ErrorPayload(LastLine)]>>
        /\ current_tool = None
        /\ pc = "read"

\* C10: between a text fragment and any tool header after it the primary output
\* has a block-closing newline; a tool_use or tool_start event leaves no text
\* block open, and when it found one open the newline is the first thing it wrote.
C10_TextClosedBeforeToolHeader ==
    /\ \A i \in 1..Len(out) : \A j \in (i + 1)..Len(out) :
          out[i].k = "text" /\ out[j].k = "tool_header"
              => \E m \in (i + 1)..(j - 1) : out[m].k = "newline"
    /\ JustProcessed /\ EventType(LastLine) \in {"tool_use", "tool_start"}
          => /\ ~in_text_block
             /\ before.in_text_block => NewOut # <<>> /\ NewOut[1].k = "newline"

\* A tool_start arrived while a text block was open: the newline, then the header.
C10_Witness ==
    /\ JustProcessed
    /\ EventType(LastLine) = "tool_start"
    /\ before.in_text_block
    /\ Len(NewOut) >= 2
    /\ NewOut[1].k = "newline"
    /\ NewOut[2].k = "tool_header"
    /\ ~in_text_block


\* ------------------------------------------- dispatch and unmatched events

\* The line of the scenario as the spec writes it, name and input at top level.
FlatScenarioLine ==
    Json([type |-> "tool_use", name |-> S_bash, input |-> [command |-> S_ls]])

\* The same call in the shape handle_tool_use reads: part.tool, part.state.input.
NestedScenarioLine ==
    Json([type |-> "tool_use",
          part |-> [tool |-> S_bash, state |-> [input |-> [command |-> S_ls]]]])

\* Events with unknown discriminants, events recognised by part.type alone, tool
\* events with fields missing, and the two scenario lines.
DispatchLines ==
    {Json([type |-> "session_start"]),
     Json([part |-> [type |-> "snapshot"]]),
     Json([type |-> "message", part |-> [type |-> "text", text |-> S_hi]]),
     Json([part |-> [type |-> "tool", tool |-> S_bash, callID |-> "c1",
                     state |-> CompletedOk]]),
     Json([part |-> [type |-> "tool-start", name |-> S_grep, callID |-> "c4"]]),
     Json([part |-> [type |-> "tool-finish", output |-> S_three_lines]]),
     Json([type |-> "tool_finish"]),
     Json([type |-> "tool_start"]),
     ToolFinish("c4", S_boom, TRUE),
     FlatScenarioLine,
     NestedScenarioLine,
     Text(S_hi)}

NextDispatch ==
    \/ ReadLine(DispatchLines)
    \/ EndOfInput
    \/ Interrupt
    \/ BrokenPipe
    \/ Finalize

SpecDispatch ==
    Init /\ [][NextDispatch]_vars

\* The part.type discriminant of an input line.
PartType(line) ==
    Get(PartOf(line), "type", "")

\* The values of type that handle_message tests first.
KnownTypes ==
    {"text", "tool_use", "tool_start", "tool_finish", "step_start", "step_finish", "error"}

\* The event reaches the handler of the type t, named by type or, when type is
\* none of KnownTypes, by the part.type pt.
DispatchedAs(line, t, pt) ==
    /\ IsJson(line)
    /\ \/ EventType(line) = t
       \/ EventType(line) \notin KnownTypes /\ PartType(line) = pt

\* Neither type nor part.type is one that handle_message knows.
IsUnrecognized(line) ==
    /\ IsJson(line)
    /\ EventType(line) \notin KnownTypes
    /\ PartType(line) \notin {"text", "tool", "tool-start", "tool-finish"}

\* C11: an event with unrecognized discriminants changes no field of the
\* processor, writes nothing to the side channel, leaves the loop reading, and
\* writes to the primary output only in verbose (debug) mode.
C11_UnknownEventDropped ==
    JustProcessed /\ IsUnrecognized(LastLine) =>
        /\ Fields(World) = before
        /\ NewErr = <<>>
        /\ pc = "read"
        /\ ~DEBUG => NewOut = <<>>

\* The last line is a tool_finish, by type or by part.type.
IsToolFinish(line) ==
    DispatchedAs(line, "tool_finish", "tool-finish")

IsToolStart(line) ==
    DispatchedAs(line, "tool_start", "tool-start")

IsToolUse(line) ==
    DispatchedAs(line, "tool_use", "tool")

\* C12: a tool_finish that finds no active tool leaves the tool-call counter
\* as it was and the active tool empty, and the loop goes on reading; with no
\* fields at all it writes nothing.  A tool_start without fields counts a call of
\* the tool "unknown", and a call that is never finished does not keep finalize
\* from writing its summary.
C12_UnmatchedToolEvents ==
    /\ JustProcessed /\ IsToolFinish(LastLine) /\ before.current_tool = None
          => /\ stats.tool_calls = before.stats.tool_calls
             /\ current_tool = None
             /\ pc = "read"
             /\ exit_status = -1
             /\ PartOf(LastLine) = EmptyDict => NewOut = <<>> /\ NewErr = <<>>
    /\ JustProcessed /\ IsToolStart(LastLine) /\ PartOf(LastLine) = EmptyDict
          => /\ current_tool = [name |-> <<"u", "n", "k", "n", "o", "w", "n">>]
             /\ stats.tool_calls = before.stats.tool_calls + 1
             /\ pc = "read"
    /\ FinalizeReturned /\ current_tool # None
          => /\ Len(NewErr) >= 3
             /\ NewErr[1] = [k |-> "tool_calls", n |-> stats.tool_calls]

\* A tool_finish without fields came first, with no tool active; the counter is
\* still 0 and the next line, a tool_start without fields, was processed.
C12_Witness ==
    /\ JustProcessed
    /\ NLines = 2
    /\ consumed[1] = Json([type |-> "tool_finish"])
    /\ consumed[2] = Json([type |-> "tool_start"])
    /\ stats.tool_calls = 1
    /\ current_tool # None

\* The first line of the input was the given line and rendered one tool header
\* naming bash, with the run icon and the command in at most 80 characters, and
\* the tool-call counter is 1.
RendersBashHeader(line) ==
    JustProcessed /\ NLines = 1 /\ LastLine = line =>
        /\ NewOut # <<>>
        /\ NewOut[1].k = "tool_header"
        /\ NewOut[1].icon = "run"
        /\ NewOut[1].name = S_bash
        /\ NewOut[1].formatted = S_ls
        /\ Len(NewOut[1].formatted) <= 80
        /\ stats.tool_calls = 1

\* C14 as stated: the line {"type":"tool_use","name":"bash","input":{"command":
\* "ls -la /tmp"}} renders a header with the run icon, bash and the command, and
\* the counter becomes 1.
C14_FlatLineRendersBash ==
    RendersBashHeader(FlatScenarioLine)

\* C14, amended: the line with the call under part (part.tool, part.state.input)
\* renders that header and the counter becomes 1.
C14_NestedLineRendersBash ==
    RendersBashHeader(NestedScenarioLine)

\* The nested line was the first line and the header shows the run icon.
C14_Witness ==
    /\ JustProcessed
    /\ NLines = 1
    /\ LastLine = NestedScenarioLine
    /\ NewOut[1].icon = "run"
    /\ stats.tool_calls = 1


\* C13: when the read loop is ended by the closed downstream pipe, nothing more
\* is written to the primary output or to the side channel, no further error is
\* raised, and the exit status is 0.
C13_SilentCleanExit ==
    pc = "done" /\ ended_by = "pipe" =>
        /\ NewOut = <<>>
        /\ NewErr = <<>>
        /\ exit_status = 0

\* A line that never reaches handle_message: empty, plain, or not parseable.
IsUnparsedLine ==
    /\ JustProcessed
    /\ ~IsJson(LastLine)

\* C17: a line that is empty, plain or unparseable changes no field of the
\* processor, and what it writes to the two outputs is what a fresh processor
\* writes for it: it depends on no line read before.
C17_ClassificationIsPure ==
    IsUnparsedLine =>
        /\ Fields(World) = before
        /\ NewOut = process_line(NewProcessor, LastLine).out
        /\ NewErr = process_line(NewProcessor, LastLine).err
        /\ Fields(process_line(NewProcessor, LastLine)) = Fields(NewProcessor)

\* A plain line with "error" arrived while a tool was active and a text block
\* open, was forwarded, and both are as they were.
C17_Witness ==
    /\ IsUnparsedLine
    /\ LastLine = [raw |-> L_error]
    /\ before.in_text_block
    /\ before.current_tool # None
    /\ in_text_block
    /\ current_tool # None
    /\ ForwardedVerbatim

\* The token fields the summary has to report: those of the most recent usage
\* report, all 0 when there was none.
LatestReport ==
    IF Reports = {} THEN Carried(EmptyDict)
    ELSE Carried(TokensOf(consumed[CHOOSE i \in Reports : \A j \in Reports : j <= i]))

\* C18: the second summary line is input + cache read of the most recent usage
\* report and the third is its output; the reasoning tokens are in neither; both
\* are 0 when there was no report.
C18_SummaryTotals ==
    FinalizeReturned =>
        /\ Len(NewErr) >= 3
        /\ NewErr[2] = [k |-> "total_in",
                        n |-> LatestReport.tokens_in + LatestReport.tokens_cache_read]
        /\ NewErr[3] = [k |-> "tokens_out", n |-> LatestReport.tokens_out]
        /\ Reports = {} => NewErr[2].n = 0 /\ NewErr[3].n = 0

\* The last report was {input 7, output 3, reasoning 5, cache read 11}: the
\* summary says 18 in, 3 out.
C18_Witness ==
    /\ FinalizeReturned
    /\ Reports # {}
    /\ LatestReport.tokens_reasoning = 5
    /\ LatestReport.tokens_cache_read = 11
    /\ NewErr[2].n = 18
    /\ NewErr[3].n = 3

IsToolHeader(item) ==
    item.k = "tool_header"

\* C19: the primary output has as many tool headers as the tool-call counter
\* says; a line renders a header exactly when it raises the counter, which it
\* does by 1 at most and only if it is a tool_use or tool_start event (named by
\* type or by part.type); finalize
\* leaves the counter alone.
C19_HeadersMatchCounter ==
    /\ Len(SelectSeq(out, IsToolHeader)) = stats.tool_calls
    /\ stats.tool_calls >= before.stats.tool_calls
    /\ stats.tool_calls <= before.stats.tool_calls + 1
    /\ JustProcessed
          => /\ Len(SelectSeq(NewOut, IsToolHeader))
                    = stats.tool_calls - before.stats.tool_calls
             /\ stats.tool_calls # before.stats.tool_calls
                    => IsToolUse(LastLine) \/ IsToolStart(LastLine)

\* Three lines, of which two rendered a header: a tool_start, the tool_use that
\* completes the same call, then a tool_use of another call.
C19_Witness ==
    /\ JustProcessed
    /\ NLines = 3
    /\ EventType(consumed[1]) = "tool_start"
    /\ consumed[2] = ToolUse("c4", CompletedOk)
    /\ EventType(consumed[3]) = "tool_use"
    /\ stats.tool_calls = 2
    /\ Len(SelectSeq(out, IsToolHeader)) = 2


\* ------------------------------------------------- format_tool_result alone

\* The characters of the results tried: a letter, a blank, the line break.
ResultChars ==
    {"a", " ", "\n"}

\* Every string of at most MaxResultLen of these characters.
Results ==
    UNION {[1..n -> ResultChars] : n \in 0..MaxResultLen}

\* format_tool_result(result, max_lines) is called once and its value kept.
CallFormatToolResult ==
    /\ probe = <<>>
    /\ \E result \in Results, max_lines \in 1..MaxMaxLines :
          probe' = [fn |-> "format_tool_result", result |-> result,
                    max_lines |-> max_lines,
                    output |-> format_tool_result(result, max_lines)]
    /\ UNCHANGED <<DEBUG, MAX_LINES, current_text, in_text_block, current_tool, stats,
                   out, err, pc, line_count, exit_status, consumed, marks, before,
                   ended_by, finalize_runs>>

NextFormat ==
    CallFormatToolResult

SpecFormat ==
    Init /\ [][NextFormat]_vars

Called ==
    probe # <<>>

\* What C15 says format_tool_result returns for a result of L lines: the result
\* itself when L <= max, else max lines: the first head lines, the marker with
\* the omitted count, the last tail lines.
FormatsAsClaimed ==
    LET lines == Split(probe.result)
        L == Len(lines)
        max == probe.max_lines
        head == max \div 2
        tail == max - head - 1
        shown == Split(probe.output)
    IN  IF L <= max THEN probe.output = probe.result
        ELSE /\ Len(shown) = max
             /\ \A i \in 1..head : shown[i] = lines[i]
             /\ shown[head + 1] = OmittedLine(L - head - tail)
             /\ \A i \in 1..tail : shown[head + 1 + i] = lines[L - tail + i]

\* C15 as stated: for every non-empty result and every max >= 1 the value is as
\* described.
C15_FormatNonEmpty ==
    Called /\ probe.result # <<>> => FormatsAsClaimed

\* C15, amended: for every result that is not empty and not whitespace only, and
\* every max >= 1, the value is as described.
C15_FormatNonBlank ==
    Called /\ Strip(probe.result) # <<>> => FormatsAsClaimed

\* A result of 5 lines was cut to 3: one head line, the marker, one tail line.
C15_Witness ==
    /\ Called
    /\ Strip(probe.result) # <<>>
    /\ Len(Split(probe.result)) = 5
    /\ probe.max_lines = 3
    /\ Len(Split(probe.output)) = 3
    /\ Split(probe.output)[2] = OmittedLine(3)


\* ------------------------------------------------------- long tool results


S_five_lines ==
    <<"1", "\n", "2", "\n", "3", "\n", "4", "\n", "5">>

S_blank_lines ==
    <<" ", "\n", " ">>

\* Three lines of 70 characters: 212 characters in all.
S_long_failure ==
    <<"a", "a", "a", "a", "a", "a", "a", "a", "a", "a", "a", "a", "a", "a", "a", "a", "a", "a", "a", "a", "a", "a", "a", "a", "a", "a", "a", "a", "a", "a", "a", "a", "a", "a", "a", "a", "a", "a", "a", "a", "a", "a", "a", "a", "a", "a", "a", "a", "a", "a", "a", "a", "a", "a", "a", "a", "a", "a", "a", "a", "a", "a", "a", "a", "a", "a", "a", "a", "a", "a", "\n", "b", "b", "b", "b", "b", "b", "b", "b", "b", "b", "b", "b", "b", "b", "b", "b", "b", "b", "b", "b", "b", "b", "b", "b", "b", "b", "b", "b", "b", "b", "b", "b", "b", "b", "b", "b", "b", "b", "b", "b", "b", "b", "b", "b", "b", "b", "b", "b", "b", "b", "b", "b", "b", "b", "b", "b", "b", "b", "b", "b", "b", "b", "b", "b", "b", "b", "b", "b", "b", "b", "\n", "c", "c", "c", "c", "c", "c", "c", "c", "c", "c", "c", "c", "c", "c", "c", "c", "c", "c", "c", "c", "c", "c", "c", "c", "c", "c", "c", "c", "c", "c", "c", "c", "c", "c", "c", "c", "c", "c", "c", "c", "c", "c", "c", "c", "c", "c", "c", "c", "c", "c", "c", "c", "c", "c", "c", "c", "c", "c", "c", "c", "c", "c", "c", "c", "c", "c", "c", "c", "c", "c">>

Completed(output) ==
    [status |-> "completed", input |-> ToolInput, output |-> output]

CompletedFailed(output) ==
    [status |-> "completed", input |-> ToolInput, output |-> output, exit |-> 1]

\* Finished calls with results of three and five lines, of blanks only, and a
\* failure of more than 200 characters.
OutputLines ==
    {ToolUse("c1", Completed(S_three_lines)), ToolUse("c1", Completed(S_five_lines)),
     ToolUse("c2", Completed(S_blank_lines)), ToolUse("c3", CompletedFailed(S_long_failure)),
     ToolStart("c4"),
     ToolFinish("c4", S_five_lines, FALSE), ToolFinish("c4", S_blank_lines, FALSE),
     ToolFinish("c4", S_long_failure, TRUE), ToolFinish("c4", S_boom, TRUE),
     Text(S_hi)}

NextOutput ==
    \/ ReadLine(OutputLines)
    \/ EndOfInput
    \/ Interrupt
    \/ BrokenPipe
    \/ Finalize

SpecOutput ==
    Init /\ [][NextOutput]_vars

\* The last line reports the result of a call: a completed tool_use or a
\* tool_finish.
ReportsResult(line) ==
    \/ IsToolUse(line) /\ Get(StateOf(line), "status", "") = "completed"
    \/ IsToolFinish(line)

ResultOf(line) ==
    IF IsToolFinish(line) THEN Get(PartOf(line), "output", <<>>)
    ELSE Get(StateOf(line), "output", <<>>)

ReportedAsError(line) ==
    IF IsToolFinish(line)
    THEN Get(Get(PartOf(line), "metadata", EmptyDict), "error", FALSE)
             \/ Get(PartOf(line), "is_error", FALSE)
    ELSE Get(Get(StateOf(line), "metadata", EmptyDict), "error", FALSE)
             \/ Get(StateOf(line), "exit", 0) # 0

\* The lines of the primary output that the last input line wrote as tool
\* result: the lines of its result block, and the one line of a failure.
RenderedResultLines ==
    LET RECURSIVE From(_)
        From(i) ==
            IF i > Len(NewOut) THEN <<>>
            ELSE (CASE NewOut[i].k = "tool_result" -> NewOut[i].lines
                    [] NewOut[i].k = "tool_error" -> <<NewOut[i].s>>
                    [] OTHER -> <<>>) \o From(i + 1)
    IN  From(1)

IsOmissionMarker(s) ==
    \E n \in 0..Len(s) : s = OmittedLine(n)

\* The rendering holds every line of the result, in order and whole: as the
\* lines of a result block, or joined on the one line of a failure.
RendersEveryLine(result) ==
    /\ \/ RenderedResultLines = Split(result)
       \/ RenderedResultLines = <<Strip(ReplaceNewlines(result))>>
    /\ \A i \in 1..Len(RenderedResultLines) : ~IsOmissionMarker(RenderedResultLines[i])

\* C16 as stated: with MAX_LINES = 0 the output rendered for a completed
\* tool_use or a tool_finish holds every line of the result, whatever their
\* number, in order and with no omission marker.
C16_NeverTruncated ==
    JustProcessed /\ MAX_LINES = 0 /\ ReportsResult(LastLine)
        => RendersEveryLine(ResultOf(LastLine))

\* C16, amended: with MAX_LINES = 0 a result that is not reported as an error and
\* is not blank is rendered line for line, with no omission marker; a blank one
\* renders nothing, and one reported as an error is rendered on one line of at
\* most 200 characters while the side channel gets it whole.
C16_SuccessNeverTruncated ==
    JustProcessed /\ MAX_LINES = 0 /\ ReportsResult(LastLine)
        => LET result == ResultOf(LastLine)
           IN  IF ReportedAsError(LastLine)
               THEN /\ Len(RenderedResultLines) = 1
                    /\ Len(RenderedResultLines[1]) <= 200
                    /\ \E i \in 1..Len(NewErr) :
                          NewErr[i] = [k |-> "TOOL_ERROR", s |-> result]
               ELSE IF Strip(result) = <<>>
               THEN RenderedResultLines = <<>>
               ELSE /\ RenderedResultLines = Split(result)
                    /\ \A i \in 1..Len(RenderedResultLines) :
                          ~IsOmissionMarker(RenderedResultLines[i])

\* With MAX_LINES = 0 a result of five lines was rendered as five lines.
C16_Witness ==
    /\ JustProcessed
    /\ MAX_LINES = 0
    /\ ReportsResult(LastLine)
    /\ ~ReportedAsError(LastLine)
    /\ ResultOf(LastLine) = S_five_lines
    /\ Len(RenderedResultLines) = 5

\* With MAX_LINES = 2 the same result is cut to two lines, one of them the marker.
LimitCutsFiveLines ==
    JustProcessed /\ MAX_LINES = 2 /\ ReportsResult(LastLine)
                  /\ ResultOf(LastLine) = S_five_lines
        => RenderedResultLines = <<"1", OmittedLine(4)>>


\* ------------------------------------------------- text split over events


S_DO ==
    <<"D", "O">>

S_NE_ok ==
    <<"N", "E", "|", "o", "k">>

\* Text fragments that split a marker or start with one, an empty fragment, the
\* events that close a text block, and lines that are no text events.
SplitLines ==
    {Text(S_DO), Text(S_NE_ok), Text(S_hi), Text(S_done_open), Text(<<>>),
     Json([part |-> [type |-> "text", text |-> S_hi]]),
     ToolUse("c1", Pending), ToolStart("c4"), StepFinish(EmptyDict),
     ErrorEvent, [raw |-> L_error]}

NextSplit ==
    \/ ReadLine(SplitLines)
    \/ EndOfInput
    \/ Interrupt
    \/ BrokenPipe
    \/ Finalize

SpecSplit ==
    Init /\ [][NextSplit]_vars

IsTextEvent(line) ==
    DispatchedAs(line, "text", "text")

FragmentOf(line) ==
    IF IsTextEvent(line) THEN Get(PartOf(line), "text", <<>>) ELSE <<>>

\* The fragments of the text events among the first n lines, concatenated in
\* arrival order.
RECURSIVE Fragments(_)
Fragments(n) ==
    IF n = 0 THEN <<>> ELSE Fragments(n - 1) \o FragmentOf(consumed[n])

\* The lines of the text s, cut at its newline characters only, trimmed, that
\* start with DONE| or BLOCKED|.
MarkerLinesOf(s) ==
    LET lines == Split(s)
        trimmed == [i \in 1..Len(lines) |-> Strip(lines[i])]
    IN  SelectSeq(trimmed, IsCompletionLine)

\* The items of the primary output that show text or end a line.
IsTextOrNewline(m) ==
    m.k \in {"text", "newline"}

\* C20: the accumulated text is the concatenation, in arrival order, of the
\* fragments of the text events read so far; a text event appends its fragment
\* and no other line changes the text; finalize cuts it at the newline
\* characters of the fragments only.  "DO" then "NE|ok" is forwarded as DONE|ok,
\* and "DONE|a" after "hi" and a tool header is shown on a line of its own but
\* not forwarded.
C20_TextIsConcatenation ==
    /\ current_text = Fragments(NLines)
    /\ JustProcessed =>
          current_text = before.current_text \o FragmentOf(LastLine)
    /\ FinalizeReturned =>
          /\ current_text = before.current_text
          /\ ForwardedAtFinalize = MarkerLinesOf(Fragments(NLines))
          /\ consumed = <<Text(S_DO), Text(S_NE_ok)>>
                => ForwardedAtFinalize = <<S_DONE_ok>>
          /\ consumed = <<Text(S_hi), ToolUse("c1", Pending), Text(S_done_open)>>
                => /\ ForwardedAtFinalize = <<>>
                   /\ SelectSeq(out, IsTextOrNewline)
                         = <<[k |-> "text", s |-> S_hi], [k |-> "newline"],
                             [k |-> "text", s |-> S_done_open], [k |-> "newline"]>>

\* "hi", a tool header and "DONE|a" were read and finalize forwarded nothing.
C20_Witness ==
    /\ FinalizeReturned
    /\ consumed = <<Text(S_hi), ToolUse("c1", Pending), Text(S_done_open)>>
    /\ current_text = S_hi \o S_done_open
    /\ ForwardedAtFinalize = <<>>

\* "DO" and "NE|ok" were read and finalize forwarded DONE|ok.
SplitMarkerForwarded ==
    /\ FinalizeReturned
    /\ consumed = <<Text(S_DO), Text(S_NE_ok)>>
    /\ ForwardedAtFinalize = <<S_DONE_ok>>

====
